---- MODULE Spec2Model ----
(***************************************************************************)
(* A model of the retrieval and tool-orchestration engine, one             *)
(* specification per component over shared variables; the variables of the *)
(* other components stay at their initial values.                          *)
(*   Spec        BaseAgent.process_async, the tool-calling loop            *)
(*               (src/src/agents/specialized.py) with MCPClient.call_tool  *)
(*   ChunkSpec   PDFExtractor._split_text (src/src/pdf/extractor.py)       *)
(*   StoreSpec   VectorStore add_chunks / search / delete_document         *)
(*               (src/src/vectordb/store.py)                               *)
(*   CmdSpec     _query_async and _interactive_async (src/src/main.py)     *)
(*   EmbedSpec   EmbeddingEngine.embed_texts                               *)
(*               (src/src/embeddings/engine.py)                            *)
(*   ExtractSpec PDFExtractor.extract_chunks over _split_text              *)
(*   RagSpec     RAGPipeline.query (src/src/rag/pipeline.py)               *)
(*   ClientSpec  MCPClient connect / call_tool / close                     *)
(*               (src/src/mcp/client.py)                                   *)
(***************************************************************************)
EXTENDS Integers, Sequences, FiniteSets, TLC

VARIABLES
    \* ---- tool-calling loop (one BaseAgent, one process_async at a time)
    attached,     \* self.mcp_client is not None
    tools,        \* MCPClient.tools: sequence of MCPTool
    sessions,     \* MCPClient.sessions: the server names that have a session
    stub,         \* the completion service's behaviour for this invocation
    messages,     \* the local list `messages`
    iteration,    \* the for-loop variable
    callIdx,      \* position in message.tool_calls of the call being dispatched
    pc,           \* "request" | "dispatch" | "returned" | "raised"
    requests,     \* number of chat.completions.create calls of this invocation
    result,       \* the value returned, or the exception raised
    sent,         \* the latest completion request: its messages and tools
    \* ---- chunker (one PDFExtractor, one _split_text call)
    text,         \* the argument of _split_text, a sequence of characters
    chunk_size,   \* self.chunk_size
    chunk_overlap,\* self.chunk_overlap
    start,        \* the cursor
    chunks,       \* the local list `chunks`; the return value once spc = "done"
    spans,        \* for each chunk the slice bounds <<from, to>> it was cut at
    spc,          \* "entry" | "loop" | "done"
    \* ---- vector store (one persistent collection, two callers)
    index,        \* the collection: a set of records id, embedding, document, metadata
    adding,       \* per caller: the add_chunks call between embed_texts and collection.add
    results,      \* what the search that has just returned gave; <<>> otherwise
    deleted,      \* source files deleted by delete_document and not added since
    \* ---- tool provider client (one MCPClient)
    exit_stack,   \* MCPClient._exit_stack: the contexts entered and not yet exited
    registered,   \* the connects completed since the last close: server and
                  \* listed tool names, in the order they completed
    lastOp,       \* the client operation that has just completed
    \* ---- the query and interactive commands (one run of _query_async or
    \*      _interactive_async)
    command,      \* "query" | "interactive"
    servers,      \* parse_servers(server): the server names, in option order
    connected,    \* how many passes of `for s in servers` have completed
    cpc,          \* "connect" | "try" | "finally" | "exited"
    propagating,  \* the exception travelling out of the command; <<>> when none
    closeRan,     \* MCPClient.close has run in this command
    \* ---- embedding gateway (one EmbeddingEngine.embed_texts call)
    inputs,       \* the argument `texts`
    hasCallback,  \* progress_callback is not None
    failAt,       \* the request of the service that fails (1-based); 0 for none
    cursor,       \* the loop variable i of the batch loop
    all_embeddings, \* the local list `all_embeddings`
    batchLog,     \* the `input` of every embeddings.create request, in order
    progressLog,  \* the values passed to progress_callback, in order
    epc,          \* "entry" | "loop" | "returned" | "raised"
    embedded,     \* the list returned; <<>> before the return and after a raise
    \* ---- chunk extraction (one PDFExtractor.extract_chunks call)
    doc,          \* the page texts of the opened document, in page order
    pageNo,       \* pages whose segments have been taken
    chunk_index,  \* the local counter `chunk_index`
    doc_chunks,   \* the local list `chunks` of extract_chunks
    xpc,          \* "pages" | "split" | "returned"
    \* ---- answer generator (one RAGPipeline, one query call at a time)
    question,     \* the argument `question`
    completions,  \* the `messages` of the completion requests of this query
    answer,       \* the value returned by query; <<>> before the return
    rpc           \* "call" | "generate" | "returned"

varsLoop == <<attached, tools, sessions, stub, messages, iteration, callIdx,
              pc, requests, result, sent>>

\* the loop's variables other than the client's registry
varsLoopRun == <<attached, stub, messages, iteration, callIdx, pc, requests,
                 result, sent>>

varsSplit == <<text, chunk_size, chunk_overlap, start, chunks, spans, spc>>

varsStore == <<index, adding, results, deleted>>

varsClient == <<exit_stack, registered, lastOp>>

varsCmd == <<command, servers, connected, cpc, propagating, closeRan>>

varsEmbed == <<inputs, hasCallback, failAt, cursor, all_embeddings, batchLog,
               progressLog, epc, embedded>>

varsExtract == <<doc, pageNo, chunk_index, doc_chunks, xpc>>

varsRag == <<question, completions, answer, rpc>>

\* the components added to the loop, the chunker and the store
varsAux == <<varsClient, varsCmd, varsEmbed, varsExtract, varsRag>>

vars == <<varsLoop, varsSplit, varsStore, varsAux>>

(***************************************************************************)
(* Bounds of the model and constants of the program.                       *)
(***************************************************************************)
\* self.max_iterations = 10
MaxIterations == 10

\* most tool calls the completion stub puts into one model turn
MaxCalls == 2

\* longest page text, largest chunk_size, and most passes of the chunker's loop
MaxTextLen == 6
MaxChunkSize == 4
MaxPasses == 8

\* most chunks extract_chunks makes of one document
MaxDocChunks == 2

\* config.top_k_results
top_k_results == 5

Max(a, b) == IF a >= b THEN a ELSE b
Min(a, b) == IF a <= b THEN a ELSE b

(***************************************************************************)
(* Strings.  A string the code formats (an f-string) is the tuple of its   *)
(* pieces, so every message content and every return value is a tuple.     *)
(***************************************************************************)
None == <<"None">>
SystemPrompt == <<"system_prompt">>
UserQuery == <<"query">>
FinalAnswer == <<"final answer">>
MaxIterationsSentinel == <<"Max iterations reached">>
JSONDecodeError == <<"JSONDecodeError">>
NoResult == <<>>

\* f"Tool '{tool_name}' not found"
ToolNotFound(tool_name) == <<"Tool '", tool_name, "' not found">>

\* f"Tool error: {e}"
ToolError(e) == <<"Tool error: ", e>>

\* "\n".join(content.text ...) of what the provider answered
ProviderText(tool_name) == <<"text of ", tool_name>>
ProviderFailure == "connection closed"

(***************************************************************************)
(* json.loads on the argument strings the completion stub can send.  The   *)
(* third string is not JSON: json.loads raises JSONDecodeError on it.      *)
(***************************************************************************)
ArgumentStrings == {"{}", "{\"query\": \"x\"}", "{\"query\": "}

JsonLoads(s) ==
    CASE s = "{}" -> [ok |-> TRUE, value |-> <<>>]
      [] s = "{\"query\": \"x\"}" -> [ok |-> TRUE, value |-> [query |-> "x"]]
      [] OTHER -> [ok |-> FALSE, value |-> JSONDecodeError]

(***************************************************************************)
(* The tool provider.  MCPClient.call_tool walks self.tools in order and   *)
(* returns from the first entry of that name whose server has a session:   *)
(* the joined text, or "Tool error: ..." when session.call_tool raised     *)
(* (`provider` says which of the two the server does for this call).       *)
(* Nothing escapes: raised is FALSE on every path.                         *)
(***************************************************************************)
RECURSIVE CallToolFrom(_, _, _, _, _, _)
CallToolFrom(i, tls, sess, tool_name, arguments, provider) ==
    IF i > Len(tls)
    THEN [raised |-> FALSE, value |-> ToolNotFound(tool_name)]
    ELSE IF tls[i].name = tool_name /\ tls[i].server_name \in sess
         THEN IF provider = "raise"
              THEN [raised |-> FALSE, value |-> ToolError(ProviderFailure)]
              ELSE [raised |-> FALSE, value |-> ProviderText(tool_name)]
         ELSE CallToolFrom(i + 1, tls, sess, tool_name, arguments, provider)

\* call_tool without its try/except: the provider's exception escapes
CallToolNoTry(tls, sess, tool_name, arguments, provider) ==
    LET r == CallToolFrom(1, tls, sess, tool_name, arguments, provider)
    IN  IF r.value = ToolError(ProviderFailure)
        THEN [raised |-> TRUE, value |-> <<ProviderFailure>>]
        ELSE r

CallTool(tls, sess, tool_name, arguments, provider) ==
    CallToolFrom(1, tls, sess, tool_name, arguments, provider)

\* get_openai_tools(): one declaration per entry of self.tools
GetOpenAITools(tls) ==
    [i \in 1..Len(tls) |-> [type |-> "function", name |-> tls[i].name]]

(***************************************************************************)
(* The completion service is a stub, as in a test: it asks for the same    *)
(* tool calls on its first toolTurns turns and then gives a final answer.  *)
(* toolTurns = MaxIterations is a stub that asks for tools on every turn   *)
(* the loop can see.  Each call carries what the server will do with it.   *)
(***************************************************************************)
DeclaredTool == "search_documents"
UndeclaredTool == "no_such_tool"

CallKinds ==
    { [name |-> DeclaredTool,   arguments |-> "{\"query\": \"x\"}", provider |-> "ok"],
      [name |-> DeclaredTool,   arguments |-> "{}",                 provider |-> "raise"],
      [name |-> UndeclaredTool, arguments |-> "{}",                 provider |-> "ok"],
      [name |-> DeclaredTool,   arguments |-> "{\"query\": ",       provider |-> "ok"] }

SeqsUpTo(S, n) == UNION { [1..k -> S] : k \in 1..n }

Stubs == [toolTurns : 0..MaxIterations, calls : SeqsUpTo(CallKinds, MaxCalls)]

\* response.choices[0].message of turn `it`
StubResponse(st, it) ==
    IF it < st.toolTurns
    THEN [role |-> "assistant", content |-> None,
          tool_calls |-> [i \in 1..Len(st.calls) |->
                            [id |-> <<it, i>>,
                             name |-> st.calls[i].name,
                             arguments |-> st.calls[i].arguments]]]
    ELSE [role |-> "assistant", content |-> FinalAnswer, tool_calls |-> <<>>]

SeedMessages ==
    << [role |-> "system", content |-> SystemPrompt],
       [role |-> "user", content |-> UserQuery] >>

ToolMessage(tool_call, content) ==
    [role |-> "tool", tool_call_id |-> tool_call.id, content |-> content]

\* no completion request has been made in this invocation
NoRequest == [messages |-> <<>>, tools |-> <<>>]

\* line 28: the tools declared to the completion service; <<>> stands for the
\* tools=None of line 39
DeclaredTools(att, tls) == IF att THEN GetOpenAITools(tls) ELSE <<>>

\* line 45 without `and self.mcp_client`
TakesToolBranchUnattached(message, att) == message.tool_calls # <<>>

\* line 45: `if message.tool_calls and self.mcp_client`
TakesToolBranch(message, att) == message.tool_calls # <<>> /\ att

(***************************************************************************)
(* BaseAgent.process_async                                                 *)
(***************************************************************************)
InitLoop ==
    /\ attached \in BOOLEAN
    /\ tools = << [name |-> DeclaredTool, server_name |-> "server_0"] >>
    /\ sessions = {"server_0"}
    /\ stub \in Stubs
    /\ messages = SeedMessages
    /\ iteration = 0
    /\ callIdx = 0
    /\ pc = "request"
    /\ requests = 0
    /\ result = NoResult
    /\ sent = NoRequest

\* the chunker at rest, while another component runs
SplitIdle ==
    /\ text = <<>>
    /\ chunk_size = 1
    /\ chunk_overlap = 0
    /\ start = 0
    /\ chunks = <<>>
    /\ spans = <<>>
    /\ spc = "done"

\* the store at rest, while another component runs
StoreIdle ==
    /\ index = {}
    /\ adding = <<>>
    /\ results = <<>>
    /\ deleted = {}

\* the loop at rest, while another component runs
LoopIdle ==
    /\ attached = FALSE
    /\ tools = <<>>
    /\ sessions = {}
    /\ stub = [toolTurns |-> 0, calls |-> <<>>]
    /\ messages = <<>>
    /\ iteration = 0
    /\ callIdx = 0
    /\ pc = "idle"
    /\ requests = 0
    /\ result = NoResult
    /\ sent = NoRequest

\* no operation of the client has completed yet
NoOp == [op |-> "none", name |-> "", server |-> "", value |-> <<>>]

\* a new MCPClient's exit stack, while another component runs
ClientIdle ==
    /\ exit_stack = <<>>
    /\ registered = <<>>
    /\ lastOp = NoOp

\* no command is running
CmdIdle ==
    /\ command = "none"
    /\ servers = <<>>
    /\ connected = 0
    /\ cpc = "idle"
    /\ propagating = <<>>
    /\ closeRan = FALSE

\* the embedding gateway at rest
EmbedIdle ==
    /\ inputs = <<>>
    /\ hasCallback = FALSE
    /\ failAt = 0
    /\ cursor = 0
    /\ all_embeddings = <<>>
    /\ batchLog = <<>>
    /\ progressLog = <<>>
    /\ epc = "idle"
    /\ embedded = <<>>

\* no document is being extracted
ExtractIdle ==
    /\ doc = <<>>
    /\ pageNo = 0
    /\ chunk_index = 0
    /\ doc_chunks = <<>>
    /\ xpc = "idle"

\* the answer generator at rest
RagIdle ==
    /\ question = <<>>
    /\ completions = <<>>
    /\ answer = <<>>
    /\ rpc = "idle"

AuxIdle == ClientIdle /\ CmdIdle /\ EmbedIdle /\ ExtractIdle /\ RagIdle

\* the message the loop is dispatching: the last assistant message appended
CurrentMessage == StubResponse(stub, iteration)

\* lines 35-46 and 65-66: one completion request and the branch on its answer
Complete ==
    /\ pc = "request"
    /\ iteration < MaxIterations
    /\ requests' = requests + 1
    /\ sent' = [messages |-> messages, tools |-> DeclaredTools(attached, tools)]
    /\ LET message == StubResponse(stub, iteration)
       IN  IF TakesToolBranch(message, attached)
           THEN /\ messages' = Append(messages, message)
                /\ callIdx' = 1
                /\ pc' = "dispatch"
                /\ UNCHANGED result
           ELSE /\ pc' = "returned"
                /\ result' = message.content
                /\ UNCHANGED <<messages, callIdx>>
    /\ UNCHANGED <<attached, tools, sessions, stub, iteration>>
    /\ UNCHANGED <<varsSplit, varsStore, varsAux>>

\* lines 48-64: one pass of `for tool_call in message.tool_calls`
Dispatch ==
    /\ pc = "dispatch"
    /\ LET tool_call == CurrentMessage.tool_calls[callIdx]
           parsed == JsonLoads(tool_call.arguments)
           called == CallTool(tools, sessions, tool_call.name, parsed.value,
                              stub.calls[callIdx].provider)
       IN  IF ~parsed.ok
           THEN /\ pc' = "raised"
                /\ result' = parsed.value
                /\ UNCHANGED <<messages, callIdx, iteration>>
           ELSE IF called.raised
           THEN /\ pc' = "raised"
                /\ result' = called.value
                /\ UNCHANGED <<messages, callIdx, iteration>>
           ELSE /\ messages' = Append(messages, ToolMessage(tool_call, called.value))
                /\ IF callIdx < Len(CurrentMessage.tool_calls)
                   THEN /\ callIdx' = callIdx + 1
                        /\ UNCHANGED <<iteration, pc>>
                   ELSE /\ callIdx' = 0
                        /\ iteration' = iteration + 1
                        /\ pc' = "request"
                /\ UNCHANGED result
    /\ UNCHANGED <<attached, tools, sessions, stub, requests, sent>>
    /\ UNCHANGED <<varsSplit, varsStore, varsAux>>

\* line 68: the for loop is exhausted
Exhausted ==
    /\ pc = "request"
    /\ iteration = MaxIterations
    /\ pc' = "returned"
    /\ result' = MaxIterationsSentinel
    /\ UNCHANGED <<attached, tools, sessions, stub, messages, iteration,
                   callIdx, requests, sent>>
    /\ UNCHANGED <<varsSplit, varsStore, varsAux>>

\* the next process_async call on the same agent (lines 28-33)
Invoke ==
    /\ pc \in {"returned", "raised"}
    /\ stub' \in Stubs
    /\ messages' = SeedMessages
    /\ iteration' = 0
    /\ callIdx' = 0
    /\ pc' = "request"
    /\ requests' = 0
    /\ result' = NoResult
    /\ sent' = NoRequest
    /\ UNCHANGED <<attached, tools, sessions>>
    /\ UNCHANGED <<varsSplit, varsStore, varsAux>>

Init == InitLoop /\ SplitIdle /\ StoreIdle /\ AuxIdle

Next == Complete \/ Dispatch \/ Exhausted \/ Invoke

Spec == Init /\ [][Next]_vars


(***************************************************************************)
(* Helpers for the statements about the loop.                              *)
(***************************************************************************)
Terminated == pc \in {"returned", "raised"}

IsPrefix(s, t) == Len(s) <= Len(t) /\ SubSeq(t, 1, Len(s)) = s

ToolRoleCount(msgs) == Cardinality({i \in 1..Len(msgs) : msgs[i].role = "tool"})

\* what invoking a call of the stub gives, written out by kind
ExpectedContent(kind) ==
    IF kind.name = UndeclaredTool
    THEN <<"Tool '", "no_such_tool", "' not found">>
    ELSE IF kind.provider = "raise"
         THEN <<"Tool error: ", "connection closed">>
         ELSE <<"text of ", "search_documents">>

\* position p holds an assistant tool-call message that is followed by one
\* tool-role message per call, in call order, each with the call's id and result
TurnAnswered(msgs, p) ==
    LET m == Len(msgs[p].tool_calls)
    IN  /\ p + m <= Len(msgs)
        /\ \A i \in 1..m :
              /\ msgs[p + i].role = "tool"
              /\ msgs[p + i].tool_call_id = msgs[p].tool_calls[i].id
              /\ msgs[p + i].content = ExpectedContent(stub.calls[i])

\* C1: with a provider attached and a completion service that asks for a tool
\* call on every turn, process_async issues exactly MaxIterations completion
\* requests, never more, and returns "Max iterations reached" without raising.
C1_ExhaustionAfterMaxIterations ==
    (attached /\ stub.toolTurns = MaxIterations) =>
        /\ requests <= MaxIterations
        /\ pc # "raised"
        /\ pc = "returned" =>
              /\ requests = MaxIterations
              /\ result = <<"Max iterations reached">>

\* C2: a tool call whose arguments are not parsable JSON gets a tool-role error
\* message and the loop goes on; nothing is raised out of process_async.
C2_MalformedArgumentsRecovered ==
    /\ pc # "raised"
    /\ pc # "dispatch" =>
          \A p \in 1..Len(messages) :
              messages[p].role = "assistant" =>
                  \A i \in 1..Len(messages[p].tool_calls) :
                      ~JsonLoads(messages[p].tool_calls[i].arguments).ok =>
                          /\ p + i <= Len(messages)
                          /\ messages[p + i].role = "tool"
                          /\ messages[p + i].tool_call_id = messages[p].tool_calls[i].id

\* C3: every model turn with tool calls c1..cm is followed in the conversation
\* by exactly m tool-role messages, the i-th with the id and the result of ci,
\* all appended before the next completion request (and before the invocation
\* ends); within one invocation the conversation is only appended to.
C3_OneToolMessagePerCallInOrder ==
    /\ [](pc # "dispatch" =>
            /\ SubSeq(messages, 1, 2) = SeedMessages
            /\ \A p \in 3..Len(messages) :
                  /\ messages[p].role = "assistant" => TurnAnswered(messages, p)
                  /\ messages[p].role = "tool" =>
                        \E q \in 3..(p - 1) :
                            /\ messages[q].role = "assistant"
                            /\ p - q <= Len(messages[q].tool_calls)
                            /\ \A r \in (q + 1)..p : messages[r].role = "tool")
    /\ [][~Terminated => IsPrefix(messages, messages')]_vars

\* C4: tool calls on the first k < MaxIterations turns and then a response
\* without tool calls: process_async returns that response's content after
\* exactly k + 1 completion requests, the conversation being the seed messages
\* plus, per turn, the assistant message and one tool-role message per call.
C4_FinalAnswerAfterToolTurns ==
    (attached /\ stub.toolTurns < MaxIterations /\ Terminated) =>
        /\ pc = "returned"
        /\ result = <<"final answer">>
        /\ requests = stub.toolTurns + 1
        /\ SubSeq(messages, 1, 2) = SeedMessages
        /\ ToolRoleCount(messages) = stub.toolTurns * Len(stub.calls)
        /\ Len(messages) = 2 + stub.toolTurns * (1 + Len(stub.calls))
        /\ \A p \in 3..Len(messages) :
              messages[p].role = "assistant" => TurnAnswered(messages, p)

\* the call the loop is about to dispatch fails at the tool level: no provider
\* declares its name, or the provider's invocation raises
ToolLevelFailureNext ==
    /\ pc = "dispatch"
    /\ JsonLoads(stub.calls[callIdx].arguments).ok
    /\ \/ stub.calls[callIdx].name = UndeclaredTool
       \/ stub.calls[callIdx].provider = "raise"

\* C5: a tool-level failure never aborts the loop: the dispatch of a call to an
\* undeclared tool appends "Tool '<name>' not found", that of a call whose
\* provider raises appends "Tool error: <cause>", as the tool-role message of
\* the call, and the loop goes on to the next call or completion request.
C5_ToolFailuresAbsorbed ==
    [][ToolLevelFailureNext =>
          /\ messages' = Append(messages,
                [role |-> "tool",
                 tool_call_id |-> <<iteration, callIdx>>,
                 content |-> IF stub.calls[callIdx].name = UndeclaredTool
                             THEN <<"Tool '", stub.calls[callIdx].name, "' not found">>
                             ELSE <<"Tool error: ", "connection closed">>])
          /\ pc' # "raised"
          /\ callIdx = Len(stub.calls) =>
                (pc' = "request" /\ iteration' = iteration + 1)
          /\ callIdx < Len(stub.calls) =>
                (pc' = "dispatch" /\ callIdx' = callIdx + 1)]_vars

\* both failure strings are in the conversation and the loop has gone on to a
\* further completion request
C5_Witness ==
    /\ pc = "dispatch"
    /\ iteration >= 1
    /\ \E p, q \in 1..Len(messages) :
          /\ messages[p].role = "tool"
          /\ messages[p].content = <<"Tool '", "no_such_tool", "' not found">>
          /\ messages[q].role = "tool"
          /\ messages[q].content = <<"Tool error: ", "connection closed">>

\* Supporting facts (the parts of C1, C3 and C4 that the code does keep): when
\* every argument string of the stub parses, the loop never raises, exhausts
\* after exactly MaxIterations requests and answers every call.
AllArgumentsParse == \A i \in 1..Len(stub.calls) : JsonLoads(stub.calls[i].arguments).ok

LoopHoldsWhenArgumentsParse ==
    (attached /\ AllArgumentsParse) =>
        /\ pc # "raised"
        /\ requests <= MaxIterations
        /\ (pc = "returned" /\ stub.toolTurns = MaxIterations) =>
              (requests = MaxIterations /\ result = MaxIterationsSentinel)
        /\ (pc = "returned" /\ stub.toolTurns < MaxIterations) =>
              (requests = stub.toolTurns + 1 /\ result = FinalAnswer
               /\ ToolRoleCount(messages) = stub.toolTurns * Len(stub.calls))
        /\ pc # "dispatch" =>
              \A p \in 3..Len(messages) :
                  messages[p].role = "assistant" => TurnAnswered(messages, p)


(***************************************************************************)
(* PDFExtractor._split_text.  Text is a sequence of characters; Python     *)
(* index i is position i + 1 of the sequence.  Slices and str.rfind take   *)
(* their bounds as Python does: a negative bound counts from the end, and  *)
(* both are clipped to 0..len.                                             *)
(***************************************************************************)
Alphabet == {"a", " ", "."}
Whitespace == {" "}

Texts == UNION { [1..n -> Alphabet] : n \in 0..MaxTextLen }

PyIndex(i, n) == IF i < 0 THEN Max(i + n, 0) ELSE Min(i, n)

\* the bounds <<from, to>> of s[a:b]
SliceBounds(s, a, b) == <<PyIndex(a, Len(s)), PyIndex(b, Len(s))>>

\* s[a:b]
Slice(s, a, b) ==
    LET bd == SliceBounds(s, a, b)
    IN  IF bd[1] >= bd[2] THEN <<>> ELSE SubSeq(s, bd[1] + 1, bd[2])

\* s.rfind(sub, a, b): the highest index at which sub lies within s[a:b], or -1
RFind(s, sub, a, b) ==
    LET bd == SliceBounds(s, a, b)
        at == {i \in bd[1]..(bd[2] - Len(sub)) : SubSeq(s, i + 1, i + Len(sub)) = sub}
    IN  IF at = {} THEN -1 ELSE CHOOSE i \in at : \A j \in at : j <= i

\* s.strip()
Strip(s) ==
    LET ink == {i \in 1..Len(s) : s[i] \notin Whitespace}
    IN  IF ink = {} THEN <<>>
        ELSE SubSeq(s, CHOOSE i \in ink : \A j \in ink : i <= j,
                       CHOOSE i \in ink : \A j \in ink : j <= i)

\* lines 60-68: where the segment that starts at `st` ends
SegmentEnd(s, st, size) ==
    LET end0 == st + size
        bp1 == RFind(s, <<".", " ">>, st, end0)
        bp2 == IF bp1 = -1 \/ bp1 <= st THEN RFind(s, <<" ">>, st, end0) ELSE bp1
    IN  IF end0 < Len(s) /\ bp2 > st THEN bp2 + 1 ELSE end0

\* a sign slip in line 70
NextStartSignSlip(end, overlap) == end + overlap

\* line 70: start = end - self.chunk_overlap
NextStart(end, overlap) == end - overlap

InitSplit ==
    /\ text \in Texts
    /\ chunk_size \in 1..MaxChunkSize
    /\ chunk_overlap \in 0..(chunk_size - 1)
    /\ start = 0
    /\ chunks = <<>>
    /\ spans = <<>>
    /\ spc = "entry"

\* lines 53-54: a text no longer than chunk_size is returned whole, or dropped
SplitShort ==
    /\ spc = "entry"
    /\ Len(text) <= chunk_size
    /\ chunks' = IF Strip(text) # <<>> THEN <<text>> ELSE <<>>
    /\ spans' = IF Strip(text) # <<>> THEN << <<0, Len(text)>> >> ELSE <<>>
    /\ spc' = "done"
    /\ UNCHANGED <<text, chunk_size, chunk_overlap, start>>
    /\ UNCHANGED <<varsLoop, varsStore, varsAux>>

\* lines 56-57
SplitEnter ==
    /\ spc = "entry"
    /\ Len(text) > chunk_size
    /\ chunks' = <<>>
    /\ spans' = <<>>
    /\ start' = 0
    /\ spc' = "loop"
    /\ UNCHANGED <<text, chunk_size, chunk_overlap>>
    /\ UNCHANGED <<varsLoop, varsStore, varsAux>>

\* lines 59-70: one pass of `while start < len(text)`
SplitPass ==
    /\ spc = "loop"
    /\ start < Len(text)
    /\ Len(chunks) < MaxPasses
    /\ LET end == SegmentEnd(text, start, chunk_size)
       IN  /\ chunks' = Append(chunks, Slice(text, start, end))
           /\ spans' = Append(spans, SliceBounds(text, start, end))
           /\ start' = NextStart(end, chunk_overlap)
    /\ UNCHANGED <<text, chunk_size, chunk_overlap, spc>>
    /\ UNCHANGED <<varsLoop, varsStore, varsAux>>

\* line 72
SplitReturn ==
    /\ spc = "loop"
    /\ start >= Len(text)
    /\ spc' = "done"
    /\ UNCHANGED <<text, chunk_size, chunk_overlap, start, chunks, spans>>
    /\ UNCHANGED <<varsLoop, varsStore, varsAux>>

ChunkInit == InitSplit /\ LoopIdle /\ StoreIdle /\ AuxIdle

ChunkNext == SplitShort \/ SplitEnter \/ SplitPass \/ SplitReturn

ChunkSpec == ChunkInit /\ [][ChunkNext]_vars

\* C6: with 0 < chunk_size and 0 <= overlap < chunk_size the cursor strictly
\* increases on every pass of the loop and never becomes negative, also when
\* the segment is cut short at a sentence or word boundary near the cursor.
C6_CursorStrictlyIncreases ==
    [][(spc = "loop" /\ spc' = "loop") => (start' > start /\ start' >= 0)]_vars

SourceFiles == { <<"a">>, <<"a", "_", "1">> }
Versions == {1, 2}
Callers == {1, 2}
Queries == { <<"alpha", 0>>, <<"gamma", 0>> }
\* the top_k argument of search; 0 stands for a falsy top_k (None or 0)
TopKArgs == {0, 1}

DigitChars == <<"0", "1", "2", "3", "4", "5", "6", "7", "8", "9">>

\* str(n) for n >= 0
RECURSIVE Digits(_)
Digits(n) ==
    IF n < 10 THEN <<DigitChars[n + 1]>>
    ELSE Digits(n \div 10) \o <<DigitChars[(n % 10) + 1]>>

\* f"{chunk.source_file}_{chunk.chunk_index}"
ChunkId(chunk) == chunk.source_file \o <<"_">> \o Digits(chunk.chunk_index)

\* the text of chunk i of a document in its version v: a word and a position.
\* The two files may hold the same text, and the second version of a document
\* differs from the first in its first chunk.
ChunkText(v, i) == IF v = 1 \/ i > 0 THEN <<"alpha", i>> ELSE <<"beta", i>>

\* what extract_chunks returns for a file of n chunks: sequential chunk_index,
\* page numbers from 1, non-empty text
ExtractChunks(f, n, v) ==
    [i \in 1..n |-> [text |-> ChunkText(v, i - 1), page_number |-> i,
                     chunk_index |-> i - 1, source_file |-> f]]

\* the embedding service: one vector per text (a point on a line here); equal
\* texts get equal vectors
EmbedText(t) ==
    CASE t[1] = "alpha" -> 4 * t[2]
      [] t[1] = "gamma" -> 4 * t[2] + 1
      [] OTHER -> 4 * t[2] + 2

\* embed_texts: one embedding per text, in order
EmbedTexts(texts) == [i \in 1..Len(texts) |-> EmbedText(texts[i])]

\* the distance the collection ranks by
Distance(a, b) == IF a >= b THEN a - b ELSE b - a

\* lines 33-44: the four parallel lists handed to collection.add, as records
AddRecords(chs, embeddings) ==
    [i \in 1..Len(chs) |->
        [id |-> ChunkId(chs[i]),
         embedding |-> embeddings[i],
         document |-> chs[i].text,
         metadata |-> [page_number |-> chs[i].page_number,
                       source_file |-> chs[i].source_file,
                       chunk_index |-> chs[i].chunk_index]]]

Ids(coll) == {r.id : r \in coll}

\* collection.add: refuses a call that repeats an id; a record whose id the
\* collection already holds is skipped and the stored one is kept
CollectionAdd(coll, recs) ==
    IF \E i, j \in 1..Len(recs) : i # j /\ recs[i].id = recs[j].id
    THEN [raised |-> TRUE, collection |-> coll]
    ELSE [raised |-> FALSE,
          collection |-> coll \cup {recs[i] : i \in {j \in 1..Len(recs) :
                                                      recs[j].id \notin Ids(coll)}}]

\* a delete that matches the file name against the start of the id
CollectionDeleteByIdPrefix(coll, f) ==
    {r \in coll : ~(Len(r.id) >= Len(f) /\ SubSeq(r.id, 1, Len(f)) = f)}

\* collection.delete(where={"source_file": f})
CollectionDelete(coll, f) == {r \in coll : r.metadata.source_file # f}

\* collection.query: the n_results nearest records, closest first; records at
\* the same distance come in any order
RECURSIVE CollectionQuery(_, _, _)
CollectionQuery(coll, qe, n) ==
    IF n = 0 \/ coll = {} THEN {<<>>}
    ELSE LET nearest == {r \in coll : \A o \in coll :
                            Distance(qe, r.embedding) <= Distance(qe, o.embedding)}
         IN  UNION { {<<r>> \o t : t \in CollectionQuery(coll \ {r}, qe, n - 1)} :
                     r \in nearest }

\* lines 65-71: the result dicts of a ranked list
SearchResults(ranked, qe) ==
    [i \in 1..Len(ranked) |->
        [text |-> ranked[i].document,
         metadata |-> ranked[i].metadata,
         distance |-> Distance(qe, ranked[i].embedding)]]

\* list_documents(): the distinct source_file values
ListDocuments(coll) == {r.metadata.source_file : r \in coll}

NoCall == [chunks |-> <<>>, embeddings |-> <<>>]

InitStore ==
    /\ index = {}
    /\ adding = [p \in Callers |-> NoCall]
    /\ results = <<>>
    /\ deleted = {}

\* lines 30-34: add_chunks is called; an empty list returns at once; otherwise
\* the texts are embedded and the call stands before collection.add
AddCall(p) ==
    /\ adding[p] = NoCall
    /\ \E f \in SourceFiles, n \in 0..MaxDocChunks, v \in Versions :
          LET chs == ExtractChunks(f, n, v)
          IN  IF chs = <<>>
              THEN UNCHANGED adding
              ELSE adding' = [adding EXCEPT ![p] =
                                [chunks |-> chs,
                                 embeddings |-> EmbedTexts([i \in 1..Len(chs) |-> chs[i].text])]]
    /\ results' = <<>>
    /\ UNCHANGED <<index, deleted>>
    /\ UNCHANGED <<varsLoop, varsSplit, varsAux>>

\* line 34: embed_texts raises; add_chunks raises with it and nothing is stored
AddCallEmbedFails(p) ==
    /\ adding[p] = NoCall
    /\ results' = <<>>
    /\ UNCHANGED <<index, adding, deleted>>
    /\ UNCHANGED <<varsLoop, varsSplit, varsAux>>

\* lines 36-51: ids and metadatas are built and collection.add is called
AddWrite(p) ==
    /\ adding[p] # NoCall
    /\ LET recs == AddRecords(adding[p].chunks, adding[p].embeddings)
       IN  /\ index' = CollectionAdd(index, recs).collection
           /\ deleted' = deleted \ {recs[i].metadata.source_file : i \in 1..Len(recs)}
    /\ adding' = [adding EXCEPT ![p] = NoCall]
    /\ results' = <<>>
    /\ UNCHANGED <<varsLoop, varsSplit, varsAux>>

\* lines 53-73: search(query, top_k)
Search ==
    /\ \E q \in Queries, top_k \in TopKArgs :
          LET k == IF top_k # 0 THEN top_k ELSE top_k_results
              qe == EmbedText(q)
          IN  \E ranked \in CollectionQuery(index, qe, k) :
                  results' = SearchResults(ranked, qe)
    /\ UNCHANGED <<index, adding, deleted>>
    /\ UNCHANGED <<varsLoop, varsSplit, varsAux>>

\* lines 75-76: delete_document(source_file)
DeleteDocument(f) ==
    /\ index' = CollectionDelete(index, f)
    /\ deleted' = deleted \cup {f}
    /\ results' = <<>>
    /\ UNCHANGED adding
    /\ UNCHANGED <<varsLoop, varsSplit, varsAux>>

StoreInit == InitStore /\ LoopIdle /\ SplitIdle /\ AuxIdle

StoreNext ==
    \/ \E p \in Callers : AddCall(p)
    \/ \E p \in Callers : AddCallEmbedFails(p)
    \/ \E p \in Callers : AddWrite(p)
    \/ Search
    \/ \E f \in SourceFiles : DeleteDocument(f)

StoreSpec == StoreInit /\ [][StoreNext]_vars

\* the step in which caller p's add_chunks call writes to the collection
WriteStep(p) == adding[p] # NoCall /\ adding'[p] = NoCall

\* the collection after the step holds chunk c with its own text, embedding
\* and metadata
StoredAfter(c) ==
    \E r \in index' :
        /\ r.id = ChunkId(c)
        /\ r.document = c.text
        /\ r.embedding = EmbedText(c.text)
        /\ r.metadata = [page_number |-> c.page_number,
                         source_file |-> c.source_file,
                         chunk_index |-> c.chunk_index]

\* C8: add_chunks is an upsert: the index never holds two vectors of one id,
\* and adding a chunk whose (source_file, chunk_index) is already present
\* overwrites the stored text, embedding and metadata with the later call's.
C8_AddChunksUpserts ==
    /\ [](\A r1, r2 \in index : r1.id = r2.id => r1 = r2)
    /\ [][\A p \in Callers : WriteStep(p) =>
            \A i \in 1..Len(adding[p].chunks) :
                ChunkId(adding[p].chunks[i]) \in Ids(index) =>
                    StoredAfter(adding[p].chunks[i])]_vars

\* C9: once delete_document(f) has returned and until f is added again,
\* list_documents() does not contain f and no search result names f; a step
\* that is not a write removes exactly the vectors of the deleted file (none,
\* when the file has no vectors) and leaves every other vector as it was.
C9_DeleteRemovesDocument ==
    /\ [](\A f \in deleted :
            /\ f \notin ListDocuments(index)
            /\ \A i \in 1..Len(results) : results[i].metadata.source_file # f)
    /\ [][adding' = adding =>
            index' = {r \in index : r.metadata.source_file \notin deleted'}]_vars

\* a file is deleted while the other file's vectors are stored and returned by
\* a search, and a call that will add the deleted file again is in flight
C9_Witness ==
    /\ \E f \in deleted :
          /\ \E p \in Callers : adding[p] # NoCall /\ adding[p].chunks[1].source_file = f
          /\ \E r \in index : r.metadata.source_file # f
    /\ Len(results) >= 2

\* C10: two add_chunks calls for different source files, however their embed
\* and write steps interleave, leave every vector of both calls in the index
\* with its own text and metadata: the write of one call stores each of its
\* chunks and neither drops nor changes a vector of another file.
C10_ConcurrentAddsKeepBoth ==
    [][\A p, q \in Callers :
          (/\ WriteStep(p)
           /\ adding[q] # NoCall
           /\ adding[q].chunks[1].source_file # adding[p].chunks[1].source_file) =>
              /\ \A i \in 1..Len(adding[p].chunks) : StoredAfter(adding[p].chunks[i])
              /\ \A r \in index :
                    r.metadata.source_file # adding[p].chunks[1].source_file =>
                        r \in index']_vars

\* Supporting fact (the part of C10 that the code does keep): ids are distinct
\* for distinct (source_file, chunk_index), and a write never changes or drops
\* a vector of another file; a chunk whose id is new is stored as given.
StoredIdsAreInjective ==
    \A r1, r2 \in index :
        r1.id = r2.id =>
            /\ r1.metadata.source_file = r2.metadata.source_file
            /\ r1.metadata.chunk_index = r2.metadata.chunk_index

WritesDoNotInterfere ==
    [][\A p \in Callers : WriteStep(p) =>
          /\ \A r \in index : r \in index'
          /\ \A i \in 1..Len(adding[p].chunks) :
                ChunkId(adding[p].chunks[i]) \notin Ids(index) =>
                    StoredAfter(adding[p].chunks[i])]_vars


(***************************************************************************)
(* MCPClient.connect, _load_tools and close (src/src/mcp/client.py), and   *)
(* the two commands that own a client, _query_async and _interactive_async *)
(* (src/src/main.py).  A connect has four awaits; `outcome` names the one  *)
(* that raises or is cancelled, "ok" when none does.                       *)
(***************************************************************************)
\* most --server options of one command
MaxServers == 2

\* f"server_{i}" of parse_servers
ServerNames == <<"server_0", "server_1", "server_2", "server_3">>

ParseServers(n) == [j \in 1..n |-> ServerNames[j]]

\* result.tools of session.list_tools(): the names a provider declares
ToolLists == { <<>>, <<"search_documents">>,
               <<"search_documents", "list_documents">> }

ConnectOutcomes == {"ok", "stdio_client", "ClientSession", "initialize", "list_tools"}

\* lines 30-35: the contexts connect has entered on the exit stack
StackAfterConnect(stk, server_name, outcome) ==
    CASE outcome = "stdio_client" -> stk
      [] outcome = "ClientSession" -> Append(stk, <<server_name, "stdio_client">>)
      [] OTHER -> stk \o << <<server_name, "stdio_client">>,
                            <<server_name, "ClientSession">> >>

\* line 38: reached once initialize has returned
SessionsAfterConnect(sess, server_name, outcome) ==
    IF outcome \in {"ok", "list_tools"} THEN sess \cup {server_name} ELSE sess

\* _load_tools putting the listed tools in front of the ones already loaded
LoadToolsInFront(tls, server_name, listed) ==
    [j \in 1..Len(listed) |-> [name |-> listed[j], server_name |-> server_name]] \o tls

\* _load_tools: one MCPTool per listed tool, appended in the listed order
LoadTools(tls, server_name, listed) ==
    tls \o [j \in 1..Len(listed) |-> [name |-> listed[j], server_name |-> server_name]]

ToolsAfterConnect(tls, server_name, outcome, listed) ==
    IF outcome = "ok" THEN LoadTools(tls, server_name, listed) ELSE tls

\* the connects that completed, for the statements about registration order
RegisteredAfterConnect(reg, server_name, outcome, listed) ==
    IF outcome = "ok" THEN Append(reg, [server |-> server_name, names |-> listed])
    ELSE reg

InitCmd ==
    /\ command \in {"query", "interactive"}
    /\ servers \in {ParseServers(n) : n \in 0..MaxServers}
    /\ connected = 0
    /\ cpc = "connect"
    /\ propagating = <<>>
    /\ closeRan = FALSE

\* main.py 107-108 and 159-160: one pass of `for s in servers`, outside any try
CmdConnect ==
    /\ cpc = "connect"
    /\ connected < Len(servers)
    /\ \E outcome \in ConnectOutcomes, listed \in ToolLists :
          LET s == servers[connected + 1]
          IN  /\ exit_stack' = StackAfterConnect(exit_stack, s, outcome)
              /\ sessions' = SessionsAfterConnect(sessions, s, outcome)
              /\ tools' = ToolsAfterConnect(tools, s, outcome, listed)
              /\ registered' = RegisteredAfterConnect(registered, s, outcome, listed)
              /\ IF outcome = "ok"
                 THEN /\ connected' = connected + 1
                      /\ UNCHANGED <<cpc, propagating>>
                 ELSE /\ cpc' = "exited"
                      /\ propagating' = <<outcome>>
                      /\ UNCHANGED connected
    /\ UNCHANGED <<command, servers, closeRan, lastOp>>
    /\ UNCHANGED <<varsLoopRun, varsSplit, varsStore, varsEmbed, varsExtract, varsRag>>

\* main.py 109-112 and 162-168: the tools are listed and the try is entered
CmdEnterTry ==
    /\ cpc = "connect"
    /\ connected = Len(servers)
    /\ cpc' = "try"
    /\ UNCHANGED <<command, servers, connected, propagating, closeRan>>
    /\ UNCHANGED <<varsLoop, varsSplit, varsStore, varsClient, varsEmbed,
                   varsExtract, varsRag>>

\* main.py 113-116: routing answers, raises, or the task is cancelled
CmdRoute ==
    /\ command = "query"
    /\ cpc = "try"
    /\ \E outcome \in {"answer", "raise", "CancelledError"} :
          propagating' = IF outcome = "answer" THEN <<>> ELSE <<outcome>>
    /\ cpc' = "finally"
    /\ UNCHANGED <<command, servers, connected, closeRan>>
    /\ UNCHANGED <<varsLoop, varsSplit, varsStore, varsClient, varsEmbed,
                   varsExtract, varsRag>>

\* main.py 169-181: one pass of `while True`; an answered turn stays in the loop
CmdTurn ==
    /\ command = "interactive"
    /\ cpc = "try"
    /\ \E outcome \in {"answer", "quit", "KeyboardInterrupt", "raise", "CancelledError"} :
          IF outcome = "answer"
          THEN UNCHANGED <<cpc, propagating>>
          ELSE /\ cpc' = "finally"
               /\ propagating' = IF outcome \in {"quit", "KeyboardInterrupt"}
                                 THEN <<>> ELSE <<outcome>>
    /\ UNCHANGED <<command, servers, connected, closeRan>>
    /\ UNCHANGED <<varsLoop, varsSplit, varsStore, varsClient, varsEmbed,
                   varsExtract, varsRag>>

\* main.py 117-119 and 182-184 with MCPClient.close (client.py 80-83)
CmdFinally ==
    /\ cpc = "finally"
    /\ cpc' = "exited"
    /\ IF servers # <<>>
       THEN /\ exit_stack' = <<>>
            /\ sessions' = {}
            /\ tools' = <<>>
            /\ registered' = <<>>
            /\ closeRan' = TRUE
       ELSE UNCHANGED <<exit_stack, sessions, tools, registered, closeRan>>
    /\ UNCHANGED <<command, servers, connected, propagating, lastOp>>
    /\ UNCHANGED <<varsLoopRun, varsSplit, varsStore, varsEmbed, varsExtract, varsRag>>

CmdInit ==
    InitCmd /\ ClientIdle /\ LoopIdle /\ SplitIdle /\ StoreIdle /\ EmbedIdle
            /\ ExtractIdle /\ RagIdle

CmdNext == CmdConnect \/ CmdEnterTry \/ CmdRoute \/ CmdTurn \/ CmdFinally

CmdSpec == CmdInit /\ [][CmdNext]_vars

\* C11: when _query_async or _interactive_async has exited, on whatever path
\* (a later connect or its tool listing raised, routing or the interactive
\* loop raised, the task was cancelled), every context that MCPClient.connect
\* entered has been released: MCPClient.close has run and the exit stack is
\* empty.
C11_SessionsReleasedOnEveryExit ==
    cpc = "exited" => exit_stack = <<>>

\* what does hold: an exit through the try block releases everything
ReleasedAfterTry ==
    (cpc = "exited" /\ connected = Len(servers)) =>
        /\ exit_stack = <<>>
        /\ servers # <<>> => closeRan


(***************************************************************************)
(* EmbeddingEngine.embed_texts (src/src/embeddings/engine.py).  The        *)
(* embedding service answers a request with one vector per input, in the   *)
(* order of the inputs, or fails; failAt says which request of the call    *)
(* fails.  A progress value is the fraction <<numerator, denominator>>.    *)
(***************************************************************************)
\* EmbeddingEngine.BATCH_SIZE
BATCH_SIZE == 50

\* most texts of one call
MaxInputs == 101

\* the latest request of a call that may fail
MaxFailAt == 3

\* the texts a caller passes: n texts of one kind, every one different
InputTexts(kind, n) == [j \in 1..n |-> <<kind, j>>]

\* response.data of embeddings.create(input=batch)
ServiceEmbed(batch) == [j \in 1..Len(batch) |-> EmbedText(batch[j])]

\* line 50 without the min
ProgressUnclipped(at, total) == <<at + BATCH_SIZE, total>>

\* line 50: min(i + BATCH_SIZE, total) / total
Progress(at, total) == <<Min(at + BATCH_SIZE, total), total>>

InitEmbed ==
    /\ inputs \in {InputTexts(kind, n) : kind \in {"alpha", "gamma"}, n \in 0..MaxInputs}
    /\ hasCallback \in BOOLEAN
    /\ failAt \in 0..MaxFailAt
    /\ cursor = 0
    /\ all_embeddings = <<>>
    /\ batchLog = <<>>
    /\ progressLog = <<>>
    /\ epc = "entry"
    /\ embedded = <<>>

\* lines 28-29: nothing to embed
EmbedEmpty ==
    /\ epc = "entry"
    /\ inputs = <<>>
    /\ epc' = "returned"
    /\ embedded' = <<>>
    /\ UNCHANGED <<inputs, hasCallback, failAt, cursor, all_embeddings, batchLog,
                   progressLog>>
    /\ UNCHANGED <<varsLoop, varsSplit, varsStore, varsClient, varsCmd,
                   varsExtract, varsRag>>

\* lines 31-36: one request for all the texts
EmbedSingle ==
    /\ epc = "entry"
    /\ inputs # <<>>
    /\ Len(inputs) <= BATCH_SIZE
    /\ batchLog' = Append(batchLog, inputs)
    /\ IF failAt = 1
       THEN /\ epc' = "raised"
            /\ UNCHANGED <<progressLog, embedded>>
       ELSE /\ progressLog' = IF hasCallback THEN Append(progressLog, <<1, 1>>)
                                             ELSE progressLog
            /\ embedded' = ServiceEmbed(inputs)
            /\ epc' = "returned"
    /\ UNCHANGED <<inputs, hasCallback, failAt, cursor, all_embeddings>>
    /\ UNCHANGED <<varsLoop, varsSplit, varsStore, varsClient, varsCmd,
                   varsExtract, varsRag>>

\* lines 38-42: more texts than one batch holds
EmbedEnterLoop ==
    /\ epc = "entry"
    /\ Len(inputs) > BATCH_SIZE
    /\ epc' = "loop"
    /\ cursor' = 0
    /\ all_embeddings' = <<>>
    /\ UNCHANGED <<inputs, hasCallback, failAt, batchLog, progressLog, embedded>>
    /\ UNCHANGED <<varsLoop, varsSplit, varsStore, varsClient, varsCmd,
                   varsExtract, varsRag>>

\* lines 42-53: one pass of `for i in range(0, total, BATCH_SIZE)`
EmbedBatch ==
    /\ epc = "loop"
    /\ cursor < Len(inputs)
    /\ LET batch == Slice(inputs, cursor, cursor + BATCH_SIZE)
       IN  /\ batchLog' = Append(batchLog, batch)
           /\ IF failAt = Len(batchLog) + 1
              THEN /\ epc' = "raised"
                   /\ UNCHANGED <<cursor, all_embeddings, progressLog>>
              ELSE /\ all_embeddings' = all_embeddings \o ServiceEmbed(batch)
                   /\ progressLog' =
                         IF hasCallback
                         THEN Append(progressLog, Progress(cursor, Len(inputs)))
                         ELSE progressLog
                   /\ cursor' = cursor + BATCH_SIZE
                   /\ UNCHANGED epc
    /\ UNCHANGED <<inputs, hasCallback, failAt, embedded>>
    /\ UNCHANGED <<varsLoop, varsSplit, varsStore, varsClient, varsCmd,
                   varsExtract, varsRag>>

\* line 55: the range is exhausted
EmbedReturn ==
    /\ epc = "loop"
    /\ cursor >= Len(inputs)
    /\ epc' = "returned"
    /\ embedded' = all_embeddings
    /\ UNCHANGED <<inputs, hasCallback, failAt, cursor, all_embeddings, batchLog,
                   progressLog>>
    /\ UNCHANGED <<varsLoop, varsSplit, varsStore, varsClient, varsCmd,
                   varsExtract, varsRag>>

EmbedInit ==
    InitEmbed /\ ClientIdle /\ CmdIdle /\ LoopIdle /\ SplitIdle /\ StoreIdle
              /\ ExtractIdle /\ RagIdle

EmbedNext == EmbedEmpty \/ EmbedSingle \/ EmbedEnterLoop \/ EmbedBatch \/ EmbedReturn

EmbedSpec == EmbedInit /\ [][EmbedNext]_vars


(***************************************************************************)
(* Helpers for the statements about embed_texts.                           *)
(***************************************************************************)
RECURSIVE Flatten(_)
Flatten(seqs) == IF seqs = <<>> THEN <<>> ELSE Head(seqs) \o Flatten(Tail(seqs))

\* the requests carry consecutive runs of the input, in input order, each of
\* 1..BATCH_SIZE texts, and together the whole input once the call returns
BatchesInInputOrder ==
    /\ \A b \in 1..Len(batchLog) :
          Len(batchLog[b]) >= 1 /\ Len(batchLog[b]) <= BATCH_SIZE
    /\ IsPrefix(Flatten(batchLog), inputs)
    /\ epc = "returned" => Flatten(batchLog) = inputs

\* the list returned has the vector of the j-th input at position j
OneVectorPerInput ==
    epc = "returned" =>
        /\ Len(embedded) = Len(inputs)
        /\ \A j \in 1..Len(inputs) : embedded[j] = EmbedText(inputs[j])

\* the values passed to the callback never decrease and lie in [0, 1]
ProgressMonotoneInUnit ==
    /\ \A j \in 1..Len(progressLog) :
          /\ progressLog[j][2] > 0
          /\ 0 <= progressLog[j][1]
          /\ progressLog[j][1] <= progressLog[j][2]
    /\ \A j \in 1..(Len(progressLog) - 1) :
          progressLog[j][1] * progressLog[j + 1][2]
             <= progressLog[j + 1][1] * progressLog[j][2]

\* with a callback, one value per batch that was answered
OneValuePerBatch ==
    hasCallback =>
        Len(progressLog) = IF epc = "raised" THEN Len(batchLog) - 1 ELSE Len(batchLog)

\* the last value passed to the callback is 1.0
EndsWithOne ==
    /\ progressLog # <<>>
    /\ progressLog[Len(progressLog)][1] = progressLog[Len(progressLog)][2]

\* a failing request fails the call: nothing is returned
FailureFailsTheCall ==
    /\ epc = "raised" => embedded = <<>>
    /\ epc = "returned" => (failAt = 0 \/ failAt > Len(batchLog))

\* C12 as stated: embed_texts sends the inputs in consecutive batches of at most
\* BATCH_SIZE in input order and returns one vector per input in the same order
\* and length; the values passed to the progress callback never decrease, lie
\* in [0, 1], are one per batch and end with 1.0; a failing batch fails the
\* call and no partial list is returned.
C12_BatchesAndProgress ==
    /\ BatchesInInputOrder
    /\ OneVectorPerInput
    /\ ProgressMonotoneInUnit
    /\ OneValuePerBatch
    /\ (epc = "returned" /\ hasCallback) => EndsWithOne
    /\ FailureFailsTheCall

\* C12 amended: the same, with the progress sequence ending with 1.0 when the
\* input is not empty (an empty input makes no request and passes no value).
C12_BatchesAndProgressNonEmpty ==
    /\ BatchesInInputOrder
    /\ OneVectorPerInput
    /\ ProgressMonotoneInUnit
    /\ OneValuePerBatch
    /\ (epc = "returned" /\ hasCallback /\ inputs # <<>>) => EndsWithOne
    /\ FailureFailsTheCall

\* a call with a callback returned after three batches, the last one partial
C12_Witness ==
    /\ epc = "returned"
    /\ hasCallback
    /\ Len(batchLog) = 3
    /\ Len(batchLog[3]) < BATCH_SIZE
    /\ Len(progressLog) = 3
    /\ Len(embedded) = Len(inputs)

\* the batched call returns what the store's view of embed_texts returns
EmbedTextsAgrees ==
    epc = "returned" => embedded = EmbedTexts(inputs)


(***************************************************************************)
(* PDFExtractor.extract_chunks (src/src/pdf/extractor.py 28-50).  Each     *)
(* page's text goes through _split_text, which is the chunker above: the   *)
(* call sets its variables, its actions run, and extract_chunks goes on    *)
(* when it is done.  A _split_text that does not return leaves             *)
(* extract_chunks waiting in "split".                                      *)
(***************************************************************************)
\* most pages of a document
MaxPages == 2

\* page.get_text() of the pages a document can have
PageTexts ==
    { <<>>,
      <<" ", " ">>,
      <<"a">>,
      <<" ", "a", " ">>,
      <<"a", " ", "a", "a">>,
      <<"a", ".", " ", " ", " ", "a">> }

Docs == UNION { [1..n -> PageTexts] : n \in 0..MaxPages }

\* str(pdf_path.name)
PdfName == <<"a">>

\* lines 37-47 with an index that counts every segment, kept or dropped
RECURSIVE TakeChunksCountingAll(_, _, _)
TakeChunksCountingAll(page_chunks, page_num, idx) ==
    IF page_chunks = <<>>
    THEN <<>>
    ELSE LET chunk_text == Head(page_chunks)
         IN  IF Strip(chunk_text) # <<>>
             THEN << [text |-> Strip(chunk_text), page_number |-> page_num,
                      chunk_index |-> idx, source_file |-> PdfName] >>
                  \o TakeChunksCountingAll(Tail(page_chunks), page_num, idx + 1)
             ELSE TakeChunksCountingAll(Tail(page_chunks), page_num, idx + 1)

\* lines 37-47: the TextChunks made of one page's segments, the first kept
\* segment getting index idx
RECURSIVE TakeChunks(_, _, _)
TakeChunks(page_chunks, page_num, idx) ==
    IF page_chunks = <<>>
    THEN <<>>
    ELSE LET chunk_text == Head(page_chunks)
         IN  IF Strip(chunk_text) # <<>>
             THEN << [text |-> Strip(chunk_text), page_number |-> page_num,
                      chunk_index |-> idx, source_file |-> PdfName] >>
                  \o TakeChunks(Tail(page_chunks), page_num, idx + 1)
             ELSE TakeChunks(Tail(page_chunks), page_num, idx)

InitExtract ==
    /\ doc \in Docs
    /\ pageNo = 0
    /\ chunk_index = 0
    /\ doc_chunks = <<>>
    /\ xpc = "pages"
    /\ chunk_size \in 1..MaxChunkSize
    /\ chunk_overlap \in 0..(chunk_size - 1)
    /\ text = <<>>
    /\ start = 0
    /\ chunks = <<>>
    /\ spans = <<>>
    /\ spc = "done"

\* lines 33-35: the next page's text is handed to _split_text
ExtractSplitPage ==
    /\ xpc = "pages"
    /\ pageNo < Len(doc)
    /\ text' = doc[pageNo + 1]
    /\ start' = 0
    /\ chunks' = <<>>
    /\ spans' = <<>>
    /\ spc' = "entry"
    /\ xpc' = "split"
    /\ UNCHANGED <<doc, pageNo, chunk_index, doc_chunks, chunk_size, chunk_overlap>>
    /\ UNCHANGED <<varsLoop, varsStore, varsClient, varsCmd, varsEmbed, varsRag>>

\* lines 37-47: _split_text has returned; its non-blank segments become chunks
ExtractTake ==
    /\ xpc = "split"
    /\ spc = "done"
    /\ LET taken == TakeChunks(chunks, pageNo + 1, chunk_index)
       IN  /\ doc_chunks' = doc_chunks \o taken
           /\ chunk_index' = chunk_index + Len(taken)
    /\ pageNo' = pageNo + 1
    /\ xpc' = "pages"
    /\ UNCHANGED doc
    /\ UNCHANGED <<varsLoop, varsSplit, varsStore, varsClient, varsCmd, varsEmbed,
                   varsRag>>

\* lines 49-50
ExtractReturn ==
    /\ xpc = "pages"
    /\ pageNo = Len(doc)
    /\ xpc' = "returned"
    /\ UNCHANGED <<doc, pageNo, chunk_index, doc_chunks>>
    /\ UNCHANGED <<varsLoop, varsSplit, varsStore, varsClient, varsCmd, varsEmbed,
                   varsRag>>

ExtractInit ==
    InitExtract /\ ClientIdle /\ CmdIdle /\ EmbedIdle /\ LoopIdle /\ StoreIdle
                /\ RagIdle

ExtractNext ==
    \/ ExtractSplitPage
    \/ SplitShort
    \/ SplitEnter
    \/ SplitPass
    \/ SplitReturn
    \/ ExtractTake
    \/ ExtractReturn

ExtractSpec == ExtractInit /\ [][ExtractNext]_vars

\* some slice of page text s, stripped, is t
StrippedSliceOf(t, s) ==
    \E a \in 0..Len(s), b \in 0..Len(s) : a < b /\ Strip(Slice(s, a, b)) = t

\* C13: the chunks extract_chunks returns carry chunk_index 0, 1, 2, ... in
\* order across all pages (the i-th chunk has index i, so a dropped segment
\* takes no index); their page_number never decreases and is the 1-based
\* number of the page the text was cut from; none has empty or
\* whitespace-only text.
C13_SequentialIndexAcrossPages ==
    /\ \A j \in 1..Len(doc_chunks) :
          /\ doc_chunks[j].chunk_index = j - 1
          /\ doc_chunks[j].page_number \in 1..Len(doc)
          /\ StrippedSliceOf(doc_chunks[j].text, doc[doc_chunks[j].page_number])
          /\ doc_chunks[j].text # <<>>
          /\ \E c \in 1..Len(doc_chunks[j].text) :
                doc_chunks[j].text[c] \notin Whitespace
    /\ \A j \in 1..(Len(doc_chunks) - 1) :
          doc_chunks[j].page_number <= doc_chunks[j + 1].page_number
    /\ xpc = "returned" => chunk_index = Len(doc_chunks)

\* a two-page document returned with blank segments dropped on page 1 and a
\* chunk of page 2 indexed after the three chunks of page 1
C13_Witness ==
    /\ xpc = "returned"
    /\ chunk_size = 1
    /\ doc = << <<"a", ".", " ", " ", " ", "a">>, <<"a">> >>
    /\ Len(doc_chunks) = 4
    /\ doc_chunks[4].page_number = 2
    /\ doc_chunks[4].chunk_index = 3

\* a page's chunks are exactly the kept segments of its _split_text result
TakesThePageSegments ==
    [][(xpc = "split" /\ xpc' = "pages") =>
          /\ pageNo' = pageNo + 1
          /\ Len(doc_chunks') - Len(doc_chunks)
                = Cardinality({c \in 1..Len(chunks) : Strip(chunks[c]) # <<>>})
          /\ \A j \in (Len(doc_chunks) + 1)..Len(doc_chunks') :
                doc_chunks'[j].page_number = pageNo']_vars


(***************************************************************************)
(* RAGPipeline.query (src/src/rag/pipeline.py) over VectorStore.search.    *)
(* The collection holds documents whose chunks share pages, so that two    *)
(* results can carry the same file and page.                               *)
(***************************************************************************)
\* most chunks of one stored document
MaxRagChunks == 3

\* the chunks of a stored document: two chunks to a page
RagDocChunks(f, n) ==
    [i \in 1..n |-> [text |-> <<"alpha", i - 1>>, page_number |-> (i + 1) \div 2,
                     chunk_index |-> i - 1, source_file |-> f]]

RagRecords(f, n) ==
    LET chs == RagDocChunks(f, n)
        recs == AddRecords(chs, EmbedTexts([i \in 1..n |-> chs[i].text]))
    IN  {recs[i] : i \in 1..n}

\* the collections a query can meet: every file with up to MaxRagChunks chunks
RagCollections ==
    { UNION {RagRecords(f, sizes[f]) : f \in SourceFiles} :
        sizes \in [SourceFiles -> 0..MaxRagChunks] }

NoDocumentsSentinel == <<"No relevant documents found to answer your question.">>

RagSystemPrompt == <<"You are a helpful research assistant.">>

\* sep.join(parts)
RECURSIVE Join(_, _)
Join(parts, sep) ==
    IF parts = <<>> THEN <<>>
    ELSE IF Len(parts) = 1 THEN <<parts[1]>>
    ELSE <<Head(parts), sep>> \o Join(Tail(parts), sep)

\* line 28: f"[Source {i}: {source}, Page {page}]\n{result['text']}"
ContextPart(i, r) ==
    <<"[Source ", i, ": ", r.metadata.source_file, ", Page ",
      r.metadata.page_number, "]\n", r.text>>

\* _build_context: the parts numbered from 1 in the order of the results
BuildContext(search_results) ==
    Join([i \in 1..Len(search_results) |-> ContextPart(i, search_results[i])], "\n\n")

\* lines 38-43: the user prompt
UserPrompt(q, context) ==
    <<"Context from documents:\n", context, "\n\nQuestion: ", q,
      "\n\nProvide a clear, accurate answer based on the context above.">>

\* line 58: f"{source_file} (Page {page_number})"
Citation(r) == <<r.metadata.source_file, " (Page ", r.metadata.page_number, ")">>

\* lines 56-60 without the membership test
SourcesWithRepeats(search_results) ==
    [i \in 1..Len(search_results) |-> Citation(search_results[i])]

\* lines 56-60: the citations of the results, each kept at its first occurrence
RECURSIVE SourcesFrom(_, _, _)
SourcesFrom(search_results, i, acc) ==
    IF i > Len(search_results) THEN acc
    ELSE LET source == Citation(search_results[i])
         IN  IF \E j \in 1..Len(acc) : acc[j] = source
             THEN SourcesFrom(search_results, i + 1, acc)
             ELSE SourcesFrom(search_results, i + 1, Append(acc, source))

Sources(search_results) == SourcesFrom(search_results, 1, <<>>)

\* line 62: f"{answer}\n\n**Sources:** {', '.join(sources)}"
WithSources(content, sources) == <<content, "\n\n**Sources:** ", Join(sources, ", ")>>

InitRag ==
    /\ index \in RagCollections
    /\ adding = <<>>
    /\ results = <<>>
    /\ deleted = {}
    /\ question = <<>>
    /\ completions = <<>>
    /\ answer = <<>>
    /\ rpc = "call"

\* lines 15-18: the search, and the return when it finds nothing
RagSearch ==
    /\ rpc = "call"
    /\ \E q \in Queries, top_k \in TopKArgs :
          LET k == IF top_k # 0 THEN top_k ELSE top_k_results
              qe == EmbedText(q)
          IN  \E ranked \in CollectionQuery(index, qe, k) :
                  /\ question' = q
                  /\ results' = SearchResults(ranked, qe)
                  /\ IF ranked = <<>>
                     THEN /\ answer' = NoDocumentsSentinel
                          /\ rpc' = "returned"
                     ELSE /\ rpc' = "generate"
                          /\ UNCHANGED answer
    /\ UNCHANGED <<completions, index, adding, deleted>>
    /\ UNCHANGED <<varsLoop, varsSplit, varsClient, varsCmd, varsEmbed, varsExtract>>

\* lines 20-21 and 31-62: the context, the one completion request, the citations
RagGenerate ==
    /\ rpc = "generate"
    /\ \E content \in {FinalAnswer, None} :
          /\ completions' = Append(completions,
                << [role |-> "system", content |-> RagSystemPrompt],
                   [role |-> "user",
                    content |-> UserPrompt(question, BuildContext(results))] >>)
          /\ answer' = WithSources(content, Sources(results))
    /\ rpc' = "returned"
    /\ UNCHANGED <<question, index, adding, results, deleted>>
    /\ UNCHANGED <<varsLoop, varsSplit, varsClient, varsCmd, varsEmbed, varsExtract>>

\* the next call of query on the same pipeline
RagNextQuery ==
    /\ rpc = "returned"
    /\ question' = <<>>
    /\ results' = <<>>
    /\ completions' = <<>>
    /\ answer' = <<>>
    /\ rpc' = "call"
    /\ UNCHANGED <<index, adding, deleted>>
    /\ UNCHANGED <<varsLoop, varsSplit, varsClient, varsCmd, varsEmbed, varsExtract>>

RagInit ==
    InitRag /\ ClientIdle /\ CmdIdle /\ EmbedIdle /\ ExtractIdle /\ LoopIdle
            /\ SplitIdle

RagNext == RagSearch \/ RagGenerate \/ RagNextQuery

RagSpec == RagInit /\ [][RagNext]_vars


(***************************************************************************)
(* Helpers for the statement about RAGPipeline.query.                      *)
(***************************************************************************)
\* the context inside a completion request: the second piece of the user prompt
ContextOf(request) == request[2].content[2]

\* the citations of a returned answer, without the ", " between them
CitationsOf(ans) ==
    [j \in 1..((Len(ans[3]) + 1) \div 2) |-> ans[3][2 * j - 1]]

\* "<file> (Page <page>)" of a result, written out
CitedAs(r) == <<r.metadata.source_file, " (Page ", r.metadata.page_number, ")">>

\* the rank of the first result cited as c
FirstRankOf(c) ==
    CHOOSE i \in 1..Len(results) :
        /\ CitedAs(results[i]) = c
        /\ \A j \in 1..(i - 1) : CitedAs(results[j]) # c

\* the context lists every result once, numbered from 1, in ranked order
ContextListsResults(ctx) ==
    /\ Len(ctx) = 2 * Len(results) - 1
    /\ \A j \in 1..Len(results) :
          ctx[2 * j - 1] = <<"[Source ", j, ": ", results[j].metadata.source_file,
                             ", Page ", results[j].metadata.page_number, "]\n",
                             results[j].text>>
    /\ \A j \in 1..(Len(results) - 1) : ctx[2 * j] = "\n\n"

\* the citations are those of the results, each once, in first-occurrence order
CitationsDeduplicated(cites) ==
    /\ \A a, b \in 1..Len(cites) : a # b => cites[a] # cites[b]
    /\ {cites[a] : a \in 1..Len(cites)} = {CitedAs(results[j]) : j \in 1..Len(results)}
    /\ \A a, b \in 1..Len(cites) :
          a < b => FirstRankOf(cites[a]) < FirstRankOf(cites[b])

\* C14: RAGPipeline.query issues no completion request when the search returns
\* no results and returns the fixed sentinel; otherwise it issues exactly one
\* completion request whose context lists the results numbered from 1 in
\* ranked order, and the answer returned ends with the "<file> (Page <page>)"
\* citations of those results, deduplicated, in first-occurrence order.
C14_OneGroundedCompletion ==
    /\ Len(completions) <= 1
    /\ results = <<>> => completions = <<>>
    /\ rpc = "returned" =>
          IF results = <<>>
          THEN answer = <<"No relevant documents found to answer your question.">>
          ELSE /\ Len(completions) = 1
               /\ ContextListsResults(ContextOf(completions[1]))
               /\ answer[2] = "\n\n**Sources:** "
               /\ CitationsDeduplicated(CitationsOf(answer))

\* a query returned with results that repeat a file and page, the repeat
\* standing after a result of another file
C14_Witness ==
    /\ rpc = "returned"
    /\ Len(completions) = 1
    /\ \E i, j, k \in 1..Len(results) :
          /\ i < j /\ j < k
          /\ CitedAs(results[i]) = CitedAs(results[k])
          /\ CitedAs(results[i]) # CitedAs(results[j])
    /\ Len(CitationsOf(answer)) < Len(results)

\* a query on an empty collection returned the sentinel without a request
NoResultsNoRequest ==
    (rpc = "returned" /\ index = {}) =>
        completions = <<>> /\ answer = NoDocumentsSentinel


(***************************************************************************)
(* One MCPClient used freely: connect, call_tool and close in any order    *)
(* (src/src/mcp/client.py 23-51, 66-83).                                   *)
(***************************************************************************)
\* most connects between two closes
MaxConnects == 2

\* the server names a caller connects
ClientServers == {"server_0", "server_1"}

\* the tool names a caller asks for: the listed ones and one nobody lists
ToolNames == {"search_documents", "list_documents", UndeclaredTool}

\* lines 67-72: the server whose session call_tool hands the call to; "" when
\* it falls through to "not found"
RECURSIVE CallToolServerFrom(_, _, _, _)
CallToolServerFrom(i, tls, sess, tool_name) ==
    IF i > Len(tls) THEN ""
    ELSE IF tls[i].name = tool_name /\ tls[i].server_name \in sess
         THEN tls[i].server_name
         ELSE CallToolServerFrom(i + 1, tls, sess, tool_name)

CallToolServer(tls, sess, tool_name) == CallToolServerFrom(1, tls, sess, tool_name)

\* lines 23-39: connect(server_name, ...), completing or raising at an await
ClientConnect ==
    /\ Len(exit_stack) < 2 * MaxConnects
    /\ \E s \in ClientServers, outcome \in ConnectOutcomes, listed \in ToolLists :
          /\ exit_stack' = StackAfterConnect(exit_stack, s, outcome)
          /\ sessions' = SessionsAfterConnect(sessions, s, outcome)
          /\ tools' = ToolsAfterConnect(tools, s, outcome, listed)
          /\ registered' = RegisteredAfterConnect(registered, s, outcome, listed)
          /\ lastOp' = [op |-> IF outcome = "ok" THEN "connect" ELSE "connect raised",
                        name |-> "", server |-> s, value |-> <<>>]
    /\ UNCHANGED <<varsLoopRun, varsSplit, varsStore, varsCmd, varsEmbed,
                   varsExtract, varsRag>>

\* lines 66-78: call_tool(tool_name, arguments)
ClientCallTool ==
    /\ \E tool_name \in ToolNames, provider \in {"ok", "raise"} :
          lastOp' = [op |-> "call_tool",
                     name |-> tool_name,
                     server |-> CallToolServer(tools, sessions, tool_name),
                     value |-> CallTool(tools, sessions, tool_name, <<>>, provider).value]
    /\ UNCHANGED <<exit_stack, registered, tools, sessions>>
    /\ UNCHANGED <<varsLoopRun, varsSplit, varsStore, varsCmd, varsEmbed,
                   varsExtract, varsRag>>

\* lines 80-83: close()
ClientClose ==
    /\ exit_stack' = <<>>
    /\ sessions' = {}
    /\ tools' = <<>>
    /\ registered' = <<>>
    /\ lastOp' = [op |-> "close", name |-> "", server |-> "", value |-> <<>>]
    /\ UNCHANGED <<varsLoopRun, varsSplit, varsStore, varsCmd, varsEmbed,
                   varsExtract, varsRag>>

ClientInit ==
    ClientIdle /\ LoopIdle /\ SplitIdle /\ StoreIdle /\ CmdIdle /\ EmbedIdle
               /\ ExtractIdle /\ RagIdle

ClientNext == ClientConnect \/ ClientCallTool \/ ClientClose

ClientSpec == ClientInit /\ [][ClientNext]_vars

\* the names some completed connect has listed since the last close
RegisteredNames == UNION { {registered[i].names[j] : j \in 1..Len(registered[i].names)} :
                           i \in 1..Len(registered) }

\* the server of the earliest completed connect that listed tool_name
FirstRegistered(tool_name) ==
    LET listing(i) == \E j \in 1..Len(registered[i].names) :
                          registered[i].names[j] = tool_name
        first == CHOOSE i \in 1..Len(registered) :
                     listing(i) /\ \A h \in 1..(i - 1) : ~listing(h)
    IN  registered[first].server

\* C15: over any sequence of completed connect, call_tool and close operations
\* on one MCPClient, every entry of `tools` names a server that is a key of
\* `sessions`, so a call_tool on a listed name never answers "not found"; a
\* name listed by several servers is dispatched to the one registered first;
\* and after close both collections are empty, get_openai_tools returns
\* nothing and every call_tool answers "Tool '<name>' not found".
C15_RegistryInvariant ==
    /\ \A i \in 1..Len(tools) : tools[i].server_name \in sessions
    /\ \A tool_name \in RegisteredNames, provider \in {"ok", "raise"} :
          CallTool(tools, sessions, tool_name, <<>>, provider).value
             # <<"Tool '", tool_name, "' not found">>
    /\ (lastOp.op = "call_tool" /\ lastOp.name \in RegisteredNames) =>
          /\ lastOp.value # <<"Tool '", lastOp.name, "' not found">>
          /\ lastOp.server = FirstRegistered(lastOp.name)
    /\ lastOp.op = "close" =>
          /\ tools = <<>>
          /\ sessions = {}
          /\ GetOpenAITools(tools) = <<>>
          /\ \A tool_name \in ToolNames, provider \in {"ok", "raise"} :
                CallTool(tools, sessions, tool_name, <<>>, provider).value
                   = <<"Tool '", tool_name, "' not found">>
    /\ (lastOp.op = "call_tool" /\ registered = <<>> /\ tools = <<>>) =>
          lastOp.value = <<"Tool '", lastOp.name, "' not found">>

\* a call of a name that server_1 listed first and server_0 listed later has
\* gone to server_1
C15_Witness ==
    /\ lastOp.op = "call_tool"
    /\ lastOp.name = "search_documents"
    /\ Len(registered) = 2
    /\ registered[1].server = "server_1"
    /\ registered[2].server = "server_0"
    /\ "search_documents" \in {registered[1].names[j] : j \in 1..Len(registered[1].names)}
    /\ "search_documents" \in {registered[2].names[j] : j \in 1..Len(registered[2].names)}
    /\ lastOp.server = "server_1"


(***************************************************************************)
(* The loop of an agent that has no tool provider (Spec with attached      *)
(* FALSE): AgentRouter and the commands build their agents with            *)
(* mcp_client = None when no server is given.                              *)
(***************************************************************************)
\* C16: with mcp_client None, process_async declares zero tools, issues exactly
\* one completion request and returns that response's content whatever the
\* response contains, tool calls included: no tool is dispatched, no tool-role
\* message is appended, and "Max iterations reached" is not returned.  Every
\* invocation, a later one on the same agent included, makes its first request
\* with exactly the system message and the user message.
C16_NoProviderSingleRequest ==
    /\ requests = 1 =>
          sent.messages = << [role |-> "system", content |-> <<"system_prompt">>],
                             [role |-> "user", content |-> <<"query">>] >>
    /\ ~attached =>
          /\ requests <= 1
          /\ requests = 1 => sent.tools = <<>>
          /\ pc \notin {"dispatch", "raised"}
          /\ ToolRoleCount(messages) = 0
          /\ Len(messages) = 2
          /\ pc = "returned" =>
                /\ requests = 1
                /\ result = StubResponse(stub, 0).content
                /\ result # <<"Max iterations reached">>

\* an agent without a provider returned the content of a response that
\* carried tool calls, after one request
C16_Witness ==
    /\ ~attached
    /\ pc = "returned"
    /\ requests = 1
    /\ stub.toolTurns > 0
    /\ StubResponse(stub, 0).tool_calls # <<>>
    /\ result = <<"None">>
    /\ sent.tools = <<>>
====
